---- MODULE Spec2Model ----
(***************************************************************************)
(* Model of custom_components/vestel/media_player.py: the VestelDevice     *)
(* media-player entity.  The entity's fields (_state, _current_source,     *)
(* _sources_list) are the state; every handler of the entity is one        *)
(* action.  A handler awaits calls on the device handle (pyvesteltv, an    *)
(* external library); each such call either returns or raises, and a raise *)
(* leaves the handler at that line.  The record `last` is the observable   *)
(* run of the most recent handler: its name, arguments, the calls it made  *)
(* on the device handle in order, and how it ended; `streak` counts how    *)
(* many times in a row that handler has now been run to completion.        *)
(* device_muted is the mute flag the device handle reports (get_muted),    *)
(* mute_base what that flag was when the current streak began.             *)
(* listening tells whether on_hass_stop is still subscribed to the host's  *)
(* stop event, stops counts the times that event was fired and ws_closes   *)
(* the calls of device._ws_close().  support_power is the constructor's    *)
(* argument, support the field _support as a set of features, and query    *)
(* the latest read of the supported_features property.  sel is the run of  *)
(* async_select_source that is suspended at an await, for the              *)
(* specification in which polls run between its awaits.                    *)
(*                                                                         *)
(* Python strings are modelled as sequences of one-character strings, so   *)
(* that the substring test of async_update is computed, not assumed.       *)
(***************************************************************************)
EXTENDS Integers, Sequences, FiniteSets, TLC

VARIABLES sources_list, state, current_source, last, streak,
          device_muted, mute_base, listening, ws_closes, stops,
          support_power, support, query, sel

vars == <<sources_list, state, current_source, last, streak,
          device_muted, mute_base, listening, ws_closes, stops,
          support_power, support, query, sel>>

-----------------------------------------------------------------------------
(* Strings *)

TV == <<"T", "V">>
Netflix == <<"N", "e", "t", "f", "l", "i", "x">>
YouTube == <<"Y", "o", "u", "T", "u", "b", "e">>
HDMI1 == <<"H", "D", "M", "I", "1">>
AppleTV == <<"A", "p", "p", "l", "e", " ", "T", "V">>
Radio == <<"R", "a", "d", "i", "o">>
Empty == <<>>
\* Python's None, as a value no string equals.
None == <<"None">>

\* Python's `needle in hay` on two strings.
Contains(needle, hay) ==
    \E i \in 0..(Len(hay) - Len(needle)) :
        SubSeq(hay, i + 1, i + Len(needle)) = needle

Range(s) == {s[i] : i \in 1..Len(s)}

\* Python's list.index: the zero-based index of the first occurrence.
Index(list, x) ==
    (CHOOSE i \in 1..Len(list) :
        list[i] = x /\ \A j \in 1..(i - 1) : list[j] # x) - 1

-----------------------------------------------------------------------------
(* Constants of the program *)

STATE_IDLE == "idle"
STATE_UNKNOWN == "unknown"
STATE_OFF == "off"
STATE_PAUSED == "paused"
STATE_PLAYING == "playing"

\* The states the module imports from homeassistant.const.
DeclaredStates ==
    {STATE_IDLE, STATE_UNKNOWN, STATE_OFF, STATE_PAUSED, STATE_PLAYING}

MEDIA_TYPE_CHANNEL == "channel"

DEFAULT_SOURCES == <<TV, Netflix, YouTube>>

SUPPORT_TURN_ON == "SUPPORT_TURN_ON"
SUPPORT_TURN_OFF == "SUPPORT_TURN_OFF"

\* The feature flags are distinct bits; a mask is the set of its bits.
SUPPORT_PROCASTER ==
    {"SUPPORT_PAUSE", "SUPPORT_VOLUME_MUTE", "SUPPORT_STOP", "SUPPORT_PLAY",
     "SUPPORT_VOLUME_STEP", "SUPPORT_VOLUME_SET", "SUPPORT_NEXT_TRACK",
     "SUPPORT_PREVIOUS_TRACK", "SUPPORT_PLAY_MEDIA", "SUPPORT_SELECT_SOURCE"}

KEY_PLAY == 1025
KEY_PAUSE == 1049
KEY_STOP == 1024
KEY_DIGIT == 1000
KEY_CHANNEL_ENTER == 1053
KEY_SOURCE_MENU == 1056
KEY_SOURCE_FIRST == 1001
SETTLE_DELAY == 3

-----------------------------------------------------------------------------
(* Inputs *)

\* The largest channel number played.
MaxChannel == 999

\* The longest streak of one handler that is counted.
MaxStreak == 3

\* The most times the host's stop event is fired.
MaxStops == 2

\* Volume levels handed to set volume, in percent of the 0..1 range.
Volumes == {0, 50, 100}

\* Keys handed to the send_key service (cv.positive_int).
SomeKeys == {1, 1012, 1024}

\* The configured source lists (cv.ensure_list accepts any list; the
\* constructor reads element 0, so an entity has a non-empty list).
ConfiguredLists ==
    {DEFAULT_SOURCES, <<TV, HDMI1, AppleTV>>, <<HDMI1, AppleTV>>}

\* What device.get_media_title() may return after a refresh.
Titles == {None, Empty, TV, AppleTV, HDMI1, Netflix, Radio}

\* What device.source may hold after a refresh.
DeviceSources == {None, HDMI1, YouTube, Radio}

\* The sources a caller may ask select_source for.
Targets == {TV, Netflix, YouTube, HDMI1, AppleTV, Radio}

\* Channel numbers played under the full specification; SpecChannel plays
\* every channel of 1..MaxChannel.
SomeChannels == {7, 42, 123}

MediaTypes == {MEDIA_TYPE_CHANNEL, "music"}

-----------------------------------------------------------------------------
(* Calls on the device handle *)

Call(fn) == <<fn>>
SendKey(key) == <<"sendkey", key>>
Sleep(t) == <<"sleep", t>>

\* asyncio.sleep is not a call on the device handle and does not raise.
IsDeviceCall(c) == c[1] # "sleep"

\* The ways a handler that awaits the calls of `plan` in order can run: all
\* of them return, or the k-th, a device call, raises and ends the handler.
Attempts(plan) ==
    {[calls |-> plan, outcome |-> "ok"]}
    \cup {[calls |-> SubSeq(plan, 1, k), outcome |-> "device_error"] :
            k \in {i \in 1..Len(plan) : IsDeviceCall(plan[i])}}

\* The record of a handler's run: state0 and source0 are _state and
\* _current_source as the handler found them, push whether it scheduled
\* async_update_ha_state.
Ran(op, arg, r, push) ==
    [op |-> op, arg |-> arg, outcome |-> r.outcome, calls |-> r.calls,
     push |-> push, state0 |-> state, source0 |-> current_source]

\* The streak after handler `op` ended with `outcome`: one more when it
\* returned and the handler before it was the same and returned too.
Streak(op, outcome) ==
    IF outcome # "ok" THEN 0
    ELSE IF last.op = op /\ last.outcome = "ok" /\ streak >= 1
    THEN (IF streak < MaxStreak THEN streak + 1 ELSE MaxStreak)
    ELSE 1

\* The variables of the host's event bus and of the shutdown hook.
busVars == <<listening, ws_closes, stops>>

\* The feature mask and its reads.
featureVars == <<support_power, support, query>>

\* No select is in flight.
IdleSel ==
    [pc |-> "idle", target |-> <<>>, plan |-> <<>>, k |-> 0,
     source_start |-> <<>>, source_at_return |-> <<>>]

\* A select that has ended is forgotten when the next handler runs; one that
\* is suspended stays.
Settled(s) == IF s.pc \in {"returned", "raised"} THEN IdleSel ELSE s

Counters ==
    /\ streak' = Streak(last'.op, last'.outcome)
    /\ mute_base' = IF streak' <= 1 THEN device_muted ELSE mute_base

\* The history kept by every handler; no handler touches the event bus or
\* the feature mask.
History ==
    /\ Counters
    /\ sel' = Settled(sel)
    /\ UNCHANGED <<busVars, featureVars>>

\* The history and the frame of a handler that makes no mute call.
Track ==
    /\ History
    /\ UNCHANGED device_muted

\* The variables of the entity and of the device handle.
entityVars ==
    <<sources_list, state, current_source, last, streak, device_muted,
      mute_base>>

-----------------------------------------------------------------------------
(* Construction *)

\* Lines 93-96.
InitialSupport(power) ==
    IF power THEN SUPPORT_PROCASTER \cup {SUPPORT_TURN_ON, SUPPORT_TURN_OFF}
    ELSE SUPPORT_PROCASTER

\* The entity after __init__, constructed with one of `powers` as
\* support_power.
Constructed(powers) ==
    /\ sources_list \in ConfiguredLists
    /\ current_source = sources_list[1]
    /\ state = STATE_UNKNOWN
    /\ last = [op |-> "init", arg |-> <<>>, outcome |-> "ok", calls |-> <<>>,
               push |-> FALSE, state0 |-> STATE_UNKNOWN,
               source0 |-> sources_list[1]]
    /\ streak = 0
    /\ device_muted \in BOOLEAN
    /\ mute_base = device_muted
    /\ listening = TRUE
    /\ ws_closes = 0
    /\ stops = 0
    /\ support_power \in powers
    /\ support = InitialSupport(support_power)
    /\ query = [asked |-> FALSE, discovered |-> FALSE, features |-> {}]
    /\ sel = IdleSel

\* No handler reads the feature mask: the entity is constructed with the
\* schema's default, support_power = True.
Init == Constructed({TRUE})

InitFeatures == Constructed(BOOLEAN)

-----------------------------------------------------------------------------
(* The poll *)

\* DerivedSource with the exact-title rule tried before the "TV" rule.
DerivedSource_title_first(title, source) ==
    LET media_title == IF title = None \/ title = Empty THEN Empty ELSE title
    IN  IF media_title \in Range(sources_list) THEN media_title
        ELSE IF Contains(TV, media_title) THEN TV
        ELSE IF source \in Range(sources_list) THEN source
        ELSE current_source

\* async_update, lines 132-139: the source after a refresh that returned
\* title `title` and device source `source`.
DerivedSource(title, source) ==
    LET media_title == IF title = None \/ title = Empty THEN Empty ELSE title
    IN  IF Contains(TV, media_title) THEN TV
        ELSE IF media_title \in Range(sources_list) THEN media_title
        ELSE IF source \in Range(sources_list) THEN source
        ELSE current_source

\* PolledState with a device that is not playing reported as idle.
PolledState_idle(playing) == IF playing THEN STATE_PLAYING ELSE STATE_IDLE

\* async_update, lines 127-130.
PolledState(playing) == IF playing THEN STATE_PLAYING ELSE STATE_OFF

\* async_update marking the entity off when the refresh raises.
async_update_off_on_error ==
    \E r \in Attempts(<<Call("update")>>) :
        IF r.outcome = "ok"
        THEN \E playing \in BOOLEAN, title \in Titles, source \in DeviceSources :
                /\ state' = PolledState(playing)
                /\ current_source' = DerivedSource(title, source)
                /\ last' = Ran("update", <<playing, title, source>>, r, FALSE)
                /\ Track
                /\ UNCHANGED sources_list
        ELSE /\ state' = STATE_OFF
             /\ last' = Ran("update", <<>>, r, FALSE)
             /\ Track
             /\ UNCHANGED <<sources_list, current_source>>

\* One poll: device.update() raises, or returns and the handle then reports
\* the playing flag, the media title and the source it refreshed.
async_update ==
    \E r \in Attempts(<<Call("update")>>) :
        IF r.outcome = "ok"
        THEN \E playing \in BOOLEAN, title \in Titles, source \in DeviceSources :
                /\ state' = PolledState(playing)
                /\ current_source' = DerivedSource(title, source)
                /\ last' = Ran("update", <<playing, title, source>>, r, FALSE)
                /\ Track
                /\ UNCHANGED sources_list
        ELSE /\ last' = Ran("update", <<>>, r, FALSE)
             /\ Track
             /\ UNCHANGED <<sources_list, state, current_source>>

-----------------------------------------------------------------------------
(* Commands *)

\* A handler that awaits one device call and touches no field of the entity.
Passthrough(op, arg, call) ==
    \E r \in Attempts(<<call>>) :
        /\ last' = Ran(op, arg, r, FALSE)
        /\ Track
        /\ UNCHANGED <<sources_list, state, current_source>>

\* Optimistic with the assignment made before the call is awaited.
Optimistic_assign_first(op, call, new_state) ==
    \E r \in Attempts(<<call>>) :
        /\ state' = new_state
        /\ last' = Ran(op, <<>>, r, r.outcome = "ok")
        /\ Track
        /\ UNCHANGED <<sources_list, current_source>>

\* A handler that awaits one device call, then assigns _state and schedules
\* async_update_ha_state.
Optimistic(op, call, new_state) ==
    \E r \in Attempts(<<call>>) :
        /\ state' = IF r.outcome = "ok" THEN new_state ELSE state
        /\ last' = Ran(op, <<>>, r, r.outcome = "ok")
        /\ Track
        /\ UNCHANGED <<sources_list, current_source>>

\* A handler whose guard is false: it returns without doing anything.
Skipped(op) ==
    /\ last' = Ran(op, <<>>, [calls |-> <<>>, outcome |-> "ok"], FALSE)
    /\ Track
    /\ UNCHANGED <<sources_list, state, current_source>>

async_send_key(key) == Passthrough("send_key", <<key>>, SendKey(key))

\* async_turn_off without its guard.
async_turn_off_unguarded == Optimistic("turn_off", Call("turn_off"), STATE_OFF)

\* The guards compare with `is`: _state only ever holds one of the imported
\* constants, for which identity and equality agree.
async_turn_off ==
    IF state # STATE_OFF
    THEN Optimistic("turn_off", Call("turn_off"), STATE_OFF)
    ELSE Skipped("turn_off")

\* async_turn_on with the guard of async_turn_off.
async_turn_on_if_not_off ==
    IF state # STATE_OFF
    THEN Optimistic("turn_on", Call("turn_on"), STATE_PLAYING)
    ELSE Skipped("turn_on")

async_turn_on ==
    IF state = STATE_OFF
    THEN Optimistic("turn_on", Call("turn_on"), STATE_PLAYING)
    ELSE Skipped("turn_on")

async_volume_up == Passthrough("volume_up", <<>>, Call("volume_up"))

async_volume_down == Passthrough("volume_down", <<>>, Call("volume_down"))

async_set_volume_level(volume) ==
    Passthrough("set_volume_level", <<volume>>, <<"set_volume", volume>>)

\* async_mute_volume setting the flag it is asked for.
async_mute_volume_absolute(mute) ==
    \E r \in Attempts(<<<<"set_mute", mute>>>>) :
        /\ last' = Ran("mute_volume", <<mute>>, r, FALSE)
        /\ History
        /\ IF r.outcome = "ok" THEN device_muted' = mute
                               ELSE device_muted' \in BOOLEAN
        /\ UNCHANGED <<sources_list, state, current_source>>

\* The handler ignores `mute` and awaits device.toggle_mute(), which flips
\* the handle's mute flag; of a call that raised it is not known whether it
\* flipped the flag.
async_mute_volume(mute) ==
    \E r \in Attempts(<<Call("toggle_mute")>>) :
        /\ last' = Ran("mute_volume", <<mute>>, r, FALSE)
        /\ History
        /\ IF r.outcome = "ok" THEN device_muted' = ~device_muted
                               ELSE device_muted' \in BOOLEAN
        /\ UNCHANGED <<sources_list, state, current_source>>

async_media_play == Optimistic("media_play", SendKey(KEY_PLAY), STATE_PLAYING)

async_media_pause ==
    Optimistic("media_pause", SendKey(KEY_PAUSE), STATE_PAUSED)

\* async_media_stop with STATE_STOP bound to a value of its own.
async_media_stop_assigns ==
    \E r \in Attempts(<<SendKey(KEY_STOP)>>) :
        /\ state' = IF r.outcome = "ok" THEN "stopped" ELSE state
        /\ last' = Ran("media_stop", <<>>, r, r.outcome = "ok")
        /\ Track
        /\ UNCHANGED <<sources_list, current_source>>

\* Line 204 reads the name STATE_STOP, which the module neither imports nor
\* defines: once the key send has returned the handler raises NameError
\* before it assigns anything.
async_media_stop ==
    \E r \in Attempts(<<SendKey(KEY_STOP)>>) :
        /\ last' = [Ran("media_stop", <<>>, r, FALSE) EXCEPT
                        !.outcome = IF r.outcome = "ok" THEN "NameError" ELSE @]
        /\ Track
        /\ UNCHANGED <<sources_list, state, current_source>>

async_media_next_track ==
    Passthrough("media_next_track", <<>>, Call("next_track"))

async_media_previous_track ==
    Passthrough("media_previous_track", <<>>, Call("previous_track"))

\* Lines 219-224: the keys sent for channel number `channel`.  int(x/y) of
\* two positive integers is the floor of the quotient.
ChannelKeys(channel) ==
    (IF channel > 99 THEN <<SendKey(KEY_DIGIT + (channel \div 100))>> ELSE <<>>)
    \o (IF channel > 9 THEN <<SendKey(KEY_DIGIT + (channel \div 10))>> ELSE <<>>)
    \o <<SendKey(KEY_DIGIT - (channel \div 10) * 10 + channel),
         SendKey(KEY_CHANNEL_ENTER)>>

async_play_media(media_type, media_id) ==
    LET plan == IF media_type = MEDIA_TYPE_CHANNEL
                THEN ChannelKeys(media_id) ELSE <<>>
    IN  \E r \in Attempts(plan) :
            /\ last' = Ran("play_media", <<media_type, media_id>>, r, FALSE)
            /\ Track
            /\ UNCHANGED <<sources_list, state, current_source>>

\* StopCalls without the settle delay.
StopCalls_no_delay(source) ==
    IF source = Netflix THEN <<Call("stop_netflix")>>
    ELSE IF source = YouTube THEN <<Call("stop_youtube")>>
    ELSE <<>>

\* Lines 228-233: leaving a streaming app.
StopCalls(source) ==
    IF source = Netflix
    THEN <<Call("stop_netflix"), Sleep(SETTLE_DELAY)>>
    ELSE IF source = YouTube
    THEN <<Call("stop_youtube"), Sleep(SETTLE_DELAY)>>
    ELSE <<>>

\* StartCalls with the digit key counted from the digit-key base 1000.
StartCalls_digit_base(source) ==
    IF source = YouTube THEN <<Call("start_youtube")>>
    ELSE IF source = Netflix THEN <<Call("start_netflix")>>
    ELSE IF source \in Range(sources_list)
    THEN <<SendKey(KEY_SOURCE_MENU),
           SendKey(KEY_DIGIT + Index(sources_list, source))>>
    ELSE <<SendKey(KEY_SOURCE_MENU)>>

\* StartCalls with the index looked up before the menu key is sent.
StartCalls_index_first(source) ==
    IF source = YouTube THEN <<Call("start_youtube")>>
    ELSE IF source = Netflix THEN <<Call("start_netflix")>>
    ELSE IF source \in Range(sources_list)
    THEN <<SendKey(KEY_SOURCE_MENU),
           SendKey(KEY_SOURCE_FIRST + Index(sources_list, source))>>
    ELSE <<>>

\* Lines 235-241: the calls made for the target.  For a target that is not
\* in the list the menu key is awaited first and list.index raises
\* ValueError when the argument of the second send is evaluated.
StartCalls(source) ==
    IF source = YouTube THEN <<Call("start_youtube")>>
    ELSE IF source = Netflix THEN <<Call("start_netflix")>>
    ELSE IF source \in Range(sources_list)
    THEN <<SendKey(KEY_SOURCE_MENU),
           SendKey(KEY_SOURCE_FIRST + Index(sources_list, source))>>
    ELSE <<SendKey(KEY_SOURCE_MENU)>>

IndexRaises(source) ==
    source \notin {YouTube, Netflix} \cup Range(sources_list)

\* async_select_source returning at once when the target is the current
\* source.
async_select_source_guarded(source) ==
    \E r \in Attempts(IF source = current_source THEN <<>>
                      ELSE StopCalls(current_source) \o StartCalls(source)) :
        LET raises == source # current_source /\ IndexRaises(source)
            done == r.outcome = "ok" /\ ~raises
        IN  /\ current_source' = IF done THEN source ELSE current_source
            /\ last' = [Ran("select_source", <<source>>, r, FALSE) EXCEPT
                            !.outcome = IF r.outcome = "ok" /\ raises
                                        THEN "ValueError" ELSE @]
            /\ Track
            /\ UNCHANGED <<sources_list, state>>

async_select_source(source) ==
    \E r \in Attempts(StopCalls(current_source) \o StartCalls(source)) :
        LET done == r.outcome = "ok" /\ ~IndexRaises(source)
        IN  /\ current_source' = IF done THEN source ELSE current_source
            /\ last' = [Ran("select_source", <<source>>, r, FALSE) EXCEPT
                            !.outcome = IF r.outcome = "ok" /\ IndexRaises(source)
                                        THEN "ValueError" ELSE @]
            /\ Track
            /\ UNCHANGED <<sources_list, state>>

-----------------------------------------------------------------------------
(* async_select_source, one await at a time *)

\* The handler is called: it reads self.source, decides which app to stop,
\* and suspends at its first await.
select_begin(source) ==
    /\ sel.pc # "awaiting"
    /\ sel' = [pc |-> "awaiting", target |-> source,
               plan |-> StopCalls(current_source) \o StartCalls(source),
               k |-> 1, source_start |-> current_source,
               source_at_return |-> current_source]
    /\ UNCHANGED <<entityVars, busVars, featureVars>>

\* The record of a select that ended with `outcome` after `n` calls.
SelectRan(outcome, n) ==
    [op |-> "select_source", arg |-> <<sel.target>>, outcome |-> outcome,
     calls |-> SubSeq(sel.plan, 1, n), push |-> FALSE, state0 |-> state,
     source0 |-> sel.source_start]

SelectEnds(pc, outcome, n) ==
    /\ sel' = [sel EXCEPT !.pc = pc, !.source_at_return = current_source]
    /\ last' = SelectRan(outcome, n)
    /\ Counters
    /\ UNCHANGED <<sources_list, state, device_muted, busVars, featureVars>>

\* select_resume giving way to a poll that changed the source meanwhile.
select_resume_yields ==
    /\ sel.pc = "awaiting"
    /\ \/ /\ IsDeviceCall(sel.plan[sel.k])
          /\ SelectEnds("raised", "device_error", sel.k)
          /\ UNCHANGED current_source
       \/ /\ sel.k < Len(sel.plan)
          /\ sel' = [sel EXCEPT !.k = sel.k + 1]
          /\ UNCHANGED <<entityVars, busVars, featureVars>>
       \/ /\ sel.k = Len(sel.plan)
          /\ IF IndexRaises(sel.target)
             THEN /\ SelectEnds("raised", "ValueError", sel.k)
                  /\ UNCHANGED current_source
             ELSE /\ SelectEnds("returned", "ok", sel.k)
                  /\ current_source' = IF current_source = sel.source_start
                                        THEN sel.target ELSE current_source

\* The awaited call ends: it raises, which ends the handler; or it returns
\* and the handler goes on to its next await; or, after its last await, to
\* line 242 (or to the ValueError of line 241).
select_resume ==
    /\ sel.pc = "awaiting"
    /\ \/ /\ IsDeviceCall(sel.plan[sel.k])
          /\ SelectEnds("raised", "device_error", sel.k)
          /\ UNCHANGED current_source
       \/ /\ sel.k < Len(sel.plan)
          /\ sel' = [sel EXCEPT !.k = sel.k + 1]
          /\ UNCHANGED <<entityVars, busVars, featureVars>>
       \/ /\ sel.k = Len(sel.plan)
          /\ IF IndexRaises(sel.target)
             THEN /\ SelectEnds("raised", "ValueError", sel.k)
                  /\ UNCHANGED current_source
             ELSE /\ SelectEnds("returned", "ok", sel.k)
                  /\ current_source' = sel.target

-----------------------------------------------------------------------------
(* The shutdown hook *)

\* The stop event with on_hass_stop subscribed by async_listen, which keeps
\* the listener.
hass_stop_listen ==
    /\ stops < MaxStops
    /\ stops' = stops + 1
    /\ ws_closes' = IF listening THEN ws_closes + 1 ELSE ws_closes
    /\ UNCHANGED <<listening, entityVars, featureVars, sel>>

\* The host fires EVENT_HOMEASSISTANT_STOP.  async_listen_once removes the
\* listener as it delivers the event; on_hass_stop calls device._ws_close()
\* and hands the coroutine to the host.
hass_stop ==
    /\ stops < MaxStops
    /\ stops' = stops + 1
    /\ ws_closes' = IF listening THEN ws_closes + 1 ELSE ws_closes
    /\ listening' = FALSE
    /\ UNCHANGED <<entityVars, featureVars, sel>>

-----------------------------------------------------------------------------
(* The feature mask *)

\* supported_features clearing both power bits of an undiscovered device.
supported_features_no_power(discovered) ==
    /\ query' = [asked |-> TRUE, discovered |-> discovered,
                 features |-> IF ~discovered
                              THEN support \ {SUPPORT_TURN_ON, SUPPORT_TURN_OFF}
                              ELSE support]
    /\ UNCHANGED <<entityVars, busVars, support_power, support, sel>>

\* The host reads the property while device.discovered() returns
\* `discovered`.
supported_features(discovered) ==
    /\ query' = [asked |-> TRUE, discovered |-> discovered,
                 features |-> IF ~discovered
                              THEN support \ {SUPPORT_TURN_ON}
                              ELSE support]
    /\ UNCHANGED <<entityVars, busVars, support_power, support, sel>>

-----------------------------------------------------------------------------
(* Specifications *)

Next ==
    \/ async_update
    \/ \E key \in SomeKeys : async_send_key(key)
    \/ async_turn_off
    \/ async_turn_on
    \/ async_volume_up
    \/ async_volume_down
    \/ \E volume \in Volumes : async_set_volume_level(volume)
    \/ \E mute \in BOOLEAN : async_mute_volume(mute)
    \/ async_media_play
    \/ async_media_pause
    \/ async_media_stop
    \/ async_media_next_track
    \/ async_media_previous_track
    \/ \E media_type \in MediaTypes, media_id \in SomeChannels :
            async_play_media(media_type, media_id)
    \/ \E source \in Targets : async_select_source(source)

Spec == Init /\ [][Next]_vars

\* The entity polled and commanded, with the host shutting down at any
\* moment.
NextStop ==
    \/ hass_stop
    \/ async_update
    \/ async_turn_off
    \/ async_turn_on
    \/ async_media_play
    \/ async_media_pause
    \/ async_media_stop

SpecStop == Init /\ [][NextStop]_vars

\* The entity constructed with or without power support, polled, switched
\* on and off, and asked for its features at any moment.
NextFeatures ==
    \/ \E discovered \in BOOLEAN : supported_features(discovered)
    \/ async_update
    \/ async_turn_off
    \/ async_turn_on

SpecFeatures == InitFeatures /\ [][NextFeatures]_vars

\* Polls running before one call of async_select_source and while it is
\* suspended at its awaits.
NextConcurrent ==
    \/ sel.pc = "idle" /\ \E source \in Targets : select_begin(source)
    \/ select_resume
    \/ sel.pc \in {"idle", "awaiting"} /\ async_update

\* The entity of the default configuration, its device not muted.
InitConcurrent ==
    /\ Init
    /\ sources_list = DEFAULT_SOURCES
    /\ device_muted = FALSE

SpecConcurrent == InitConcurrent /\ [][NextConcurrent]_vars

\* A new entity asked to play one channel, any of 1..MaxChannel
\* (async_play_media reads and writes no field of the entity, so the first
\* call shows all it can do).
NextChannel ==
    /\ last.op = "init"
    /\ \E media_id \in 1..MaxChannel :
            async_play_media(MEDIA_TYPE_CHANNEL, media_id)

SpecChannel == Init /\ [][NextChannel]_vars

-----------------------------------------------------------------------------
(* Properties *)

Keys(calls) == [i \in 1..Len(calls) |-> calls[i][2]]

RECURSIVE Decimal(_)
\* The number a sequence of decimal digits writes.
Decimal(digits) ==
    IF digits = <<>> THEN 0
    ELSE 10 * Decimal(SubSeq(digits, 1, Len(digits) - 1)) + digits[Len(digits)]

\* C1: for every channel number N of 1..MaxChannel, an async_play_media of
\* media type channel that sent all its keys sent, before the confirm key,
\* only keys 1000 + d with d in 0..9, whose digits d in sending order are
\* the decimal digits of N without leading zeros.
C1_DigitKeysReconstruct ==
    (last.op = "play_media" /\ last.arg[1] = MEDIA_TYPE_CHANNEL
        /\ last.outcome = "ok")
    => LET keys == Keys(SubSeq(last.calls, 1, Len(last.calls) - 1))
           digits == [i \in 1..Len(keys) |-> keys[i] - 1000]
       IN  /\ \A i \in 1..Len(keys) : digits[i] \in 0..9
           /\ Len(digits) >= 1 /\ digits[1] # 0
           /\ Decimal(digits) = last.arg[2]

\* C2: in every reachable state the entity state is one of unknown, idle,
\* off, playing, paused.
C2_StateIsDeclared == state \in DeclaredStates

\* C2's case: a stop command whose key send returned, after a pause.
C2_Witness ==
    /\ last.op = "media_stop" /\ last.calls = <<SendKey(1024)>>
    /\ last.outcome # "device_error"
    /\ last.state0 = STATE_PAUSED

\* C3: after every poll whose refresh returned, the entity state is playing
\* if the device's is-playing signal is true and off if it is false,
\* whatever it was before; it is never paused, idle or unknown.
C3_PollOverwritesState ==
    (last.op = "update" /\ last.outcome = "ok")
    => /\ (last.arg[1] = TRUE => state = "playing")
       /\ (last.arg[1] = FALSE => state = "off")
       /\ state \notin {"paused", "idle", "unknown"}

\* C3's case: a poll that found the optimistic paused of a pause command and
\* a device that is playing.
C3_Witness ==
    /\ last.op = "update" /\ last.outcome = "ok"
    /\ last.state0 = "paused" /\ last.arg[1] = TRUE /\ state = "playing"

\* C4: a stop command whose key send returned has sent the stop key 1024 and
\* left the entity state at a value outside the declared state set.
C4_StopAssignsUndeclared ==
    (last.op = "media_stop" /\ last.outcome # "device_error")
    => /\ last.calls = <<SendKey(1024)>>
       /\ state \notin {"unknown", "idle", "off", "playing", "paused"}

\* The title holds the letters T, V next to each other.
HasTV(title) ==
    \E i \in 1..(Len(title) - 1) : title[i] = "T" /\ title[i + 1] = "V"

Configured(name) == \E i \in 1..Len(sources_list) : sources_list[i] = name

\* C5: after a poll whose refresh returned, the current source is "TV" if
\* the media title contains "TV"; else the title if it is a configured
\* source name; else the device-reported source if that is a configured
\* source name; else what it was before the poll.
C5_SourceRules ==
    (last.op = "update" /\ last.outcome = "ok")
    => LET title == IF last.arg[2] = None THEN <<>> ELSE last.arg[2]
           source == last.arg[3]
       IN  /\ HasTV(title) => current_source = TV
           /\ (~HasTV(title) /\ Configured(title)) => current_source = title
           /\ (~HasTV(title) /\ ~Configured(title) /\ Configured(source))
                => current_source = source
           /\ (~HasTV(title) /\ ~Configured(title) /\ ~Configured(source))
                => current_source = last.source0

\* C5's case: the title contains "TV" and is itself another configured
\* source name, and the poll made "TV" the source.
C5_Witness ==
    /\ last.op = "update" /\ last.outcome = "ok"
    /\ last.arg[2] = AppleTV /\ Configured(AppleTV)
    /\ last.source0 # TV /\ current_source = TV

\* C6: async_turn_off makes the power-off call exactly when the state is not
\* off beforehand, and the state is off once the call has returned; when
\* the state is off beforehand it makes no device call and leaves the state
\* as it is; a turn-off that follows a completed turn-off makes no call.
C6_TurnOffGuard ==
    last.op = "turn_off"
    => /\ (last.state0 # "off" <=> last.calls = <<<<"turn_off">>>>)
       /\ (last.state0 = "off" <=> last.calls = <<>>)
       /\ ((last.state0 # "off" /\ last.outcome = "ok") => state = "off")
       /\ (last.state0 = "off" => state = "off" /\ last.outcome = "ok")
       /\ (streak >= 2 => last.calls = <<>> /\ state = last.state0)

\* C6's case: turn-off repeated, the repeat sending nothing.
C6_Witness ==
    /\ last.op = "turn_off" /\ streak >= 2
    /\ last.calls = <<>> /\ state = "off"

\* C7: async_turn_on makes the power-on call exactly when the state is off
\* beforehand, and the state is playing once the call has returned; in any
\* other state it makes no device call and leaves the state as it is.
C7_TurnOnGuard ==
    last.op = "turn_on"
    => /\ (last.state0 = "off" <=> last.calls = <<<<"turn_on">>>>)
       /\ (last.state0 # "off" <=> last.calls = <<>>)
       /\ ((last.state0 = "off" /\ last.outcome = "ok") => state = "playing")
       /\ (last.state0 # "off" => state = last.state0 /\ last.outcome = "ok")

\* C7's case: turn-on of an entity that a pause command had left paused.
C7_Witness ==
    /\ last.op = "turn_on" /\ last.state0 = "paused"
    /\ last.calls = <<>> /\ state = "paused"

Streaming(name) == name = Netflix \/ name = YouTube

StopOf(name) == IF name = Netflix THEN <<"stop_netflix">> ELSE <<"stop_youtube">>

StartOf(name) ==
    IF name = Netflix THEN <<"start_netflix">> ELSE <<"start_youtube">>

IsStartOrKey(c) == c[1] \in {"start_netflix", "start_youtube", "sendkey"}

\* C8: in async_select_source, when the current source is Netflix or
\* YouTube that app's stop call comes first and the 3-unit delay second,
\* before any start call or key send; a select that completed for target
\* Netflix or YouTube ended with that app's start call, its only one; and
\* after a select that completed the current source is the target.  With
\* sources [TV, Netflix, YouTube], Netflix selected from YouTube gives
\* exactly stop-YouTube, delay, start-Netflix.
C8_StopDelayStart ==
    last.op = "select_source"
    => LET target == last.arg[1]
           calls == last.calls
       IN  /\ Streaming(last.source0)
              => /\ Len(calls) >= 1 /\ calls[1] = StopOf(last.source0)
                 /\ Len(calls) >= 2 => calls[2] = <<"sleep", 3>>
                 /\ \A i \in 1..Len(calls) : IsStartOrKey(calls[i]) => i > 2
           /\ (last.outcome = "ok" /\ Streaming(target))
              => /\ calls[Len(calls)] = StartOf(target)
                 /\ \A i \in 1..(Len(calls) - 1) : ~IsStartOrKey(calls[i])
           /\ last.outcome = "ok" => current_source = target
           /\ (last.outcome = "ok" /\ sources_list = <<TV, Netflix, YouTube>>
                    /\ last.source0 = YouTube /\ target = Netflix)
              => calls = <<<<"stop_youtube">>, <<"sleep", 3>>,
                           <<"start_netflix">>>>

\* C8's case: Netflix selected while YouTube is current, sources
\* [TV, Netflix, YouTube].
C8_Witness ==
    /\ last.op = "select_source" /\ last.outcome = "ok"
    /\ sources_list = <<TV, Netflix, YouTube>>
    /\ last.source0 = YouTube /\ last.arg[1] = Netflix
    /\ current_source = Netflix

\* The calls of a select after those made to leave a streaming app.
AfterStop(l) ==
    IF Streaming(l.source0) THEN SubSeq(l.calls, 3, Len(l.calls)) ELSE l.calls

\* C9: a select that completed for a configured target other than Netflix
\* and YouTube sent key 1056 and right after it key 1001 + i, i the
\* zero-based index of the target in the configured list, made no app start
\* call, and left the target as current source.
C9_MenuThenIndexKey ==
    (last.op = "select_source" /\ last.outcome = "ok"
        /\ ~Streaming(last.arg[1]) /\ Configured(last.arg[1]))
    => /\ \E i \in 0..(Len(sources_list) - 1) :
            /\ sources_list[i + 1] = last.arg[1]
            /\ AfterStop(last) = <<<<"sendkey", 1056>>, <<"sendkey", 1001 + i>>>>
       /\ \A k \in 1..Len(last.calls) :
            last.calls[k][1] \notin {"start_netflix", "start_youtube"}
       /\ current_source = last.arg[1]

\* C9's case: the third configured source selected while Netflix is current.
C9_Witness ==
    /\ last.op = "select_source" /\ last.outcome = "ok"
    /\ sources_list = <<TV, HDMI1, AppleTV>> /\ last.arg[1] = AppleTV
    /\ last.source0 = Netflix
    /\ last.calls = <<<<"stop_netflix">>, <<"sleep", 3>>,
                       <<"sendkey", 1056>>, <<"sendkey", 1003>>>>
    /\ current_source = AppleTV

\* C10: selecting the source that is already current never makes an empty
\* sequence of device calls; a select that completed made the full
\* sequence: for Netflix or YouTube its stop call, the delay and its start
\* call, for a configured source other than these key 1056 and then key
\* 1001 + index.
C10_NoNoOpGuard ==
    (last.op = "select_source" /\ last.arg[1] = last.source0)
    => /\ last.calls # <<>>
       /\ (last.outcome = "ok" /\ Streaming(last.source0))
            => last.calls = <<StopOf(last.source0), <<"sleep", 3>>,
                              StartOf(last.source0)>>
       /\ (last.outcome = "ok" /\ ~Streaming(last.source0))
            => \E i \in 0..(Len(sources_list) - 1) :
                /\ sources_list[i + 1] = last.source0
                /\ last.calls = <<<<"sendkey", 1056>>, <<"sendkey", 1001 + i>>>>

\* C10's case: the current source selected again, a configured source that
\* is no streaming app.
C10_Witness ==
    /\ last.op = "select_source" /\ last.outcome = "ok"
    /\ last.arg[1] = last.source0 /\ last.source0 = HDMI1
    /\ last.calls = <<<<"sendkey", 1056>>, <<"sendkey", 1002>>>>

C12_SourceIsConfiguredOrApp ==
    \/ \E i \in 1..Len(sources_list) : sources_list[i] = current_source
    \/ current_source = Netflix
    \/ current_source = YouTube

\* C13: device._ws_close() is never called before the host's stop event,
\* has been called once after the event fired, and is not called again
\* when the event is fired a second time.
C13_ClosedOnceAtStop ==
    /\ stops = 0 => ws_closes = 0
    /\ stops >= 1 => ws_closes = 1

\* C13's case: the stop event fired twice.
C13_Witness == stops = 2 /\ ws_closes = 1 /\ last.op # "init"

\* C14: the reported feature set holds power-on exactly when power support
\* was configured and the device reports itself discovered at the read;
\* it holds power-off exactly when power support was configured; and it
\* always holds the ten base features.
C14_FeatureMask ==
    query.asked
    => /\ ("SUPPORT_TURN_ON" \in query.features
            <=> (support_power /\ query.discovered))
       /\ ("SUPPORT_TURN_OFF" \in query.features <=> support_power)
       /\ \A f \in {"SUPPORT_PAUSE", "SUPPORT_VOLUME_MUTE", "SUPPORT_STOP",
                     "SUPPORT_PLAY", "SUPPORT_VOLUME_STEP",
                     "SUPPORT_VOLUME_SET", "SUPPORT_NEXT_TRACK",
                     "SUPPORT_PREVIOUS_TRACK", "SUPPORT_PLAY_MEDIA",
                     "SUPPORT_SELECT_SOURCE"} : f \in query.features
       /\ Cardinality(query.features) \in 10..12

\* C14's case: power support configured, the device undiscovered at the
\* read, after the entity was switched off.
C14_Witness ==
    /\ query.asked /\ support_power /\ ~query.discovered
    /\ "SUPPORT_TURN_OFF" \in query.features
    /\ "SUPPORT_TURN_ON" \notin query.features
    /\ state = "off"

\* C15: a poll whose refresh call raised ends with that error and leaves
\* the entity state and the current source as they were before the poll.
C15_FailedPollKeepsState ==
    (last.op = "update" /\ last.calls = <<<<"update">>>> /\ last.outcome # "ok")
    => /\ last.outcome = "device_error"
       /\ state = last.state0
       /\ current_source = last.source0

\* C15's case: a failed poll of an entity that a command left paused on a
\* source a select had chosen.
C15_Witness ==
    /\ last.op = "update" /\ last.outcome = "device_error"
    /\ state = "paused" /\ last.state0 = "paused"
    /\ current_source = Netflix /\ last.source0 = Netflix

\* C16: when the device call of turn on, turn off, play or pause raises,
\* the handler ends with that error and the entity state and the current
\* source are unchanged; volume up/down, set volume, mute, next/previous
\* track, send key and play channel never change them, whether their calls
\* return or raise.
C16_StateChangesAfterSuccess ==
    /\ (last.op \in {"turn_on", "turn_off", "media_play", "media_pause"}
            /\ last.outcome # "ok")
        => /\ last.outcome = "device_error"
           /\ state = last.state0 /\ current_source = last.source0
           /\ ~last.push
    /\ last.op \in {"volume_up", "volume_down", "set_volume_level",
                     "mute_volume", "media_next_track",
                     "media_previous_track", "send_key", "play_media"}
        => state = last.state0 /\ current_source = last.source0

\* C16's case: a pause whose key send raised, on a playing entity.
C16_Witness ==
    /\ last.op = "media_pause" /\ last.outcome = "device_error"
    /\ last.calls = <<<<"sendkey", 1049>>>>
    /\ last.state0 = "playing" /\ state = "playing"

\* The number of keys of `keys` that lie in `range`.
CountIn(keys, range) == Cardinality({i \in 1..Len(keys) : keys[i] \in range})

\* C17: for every channel number N of 1..MaxChannel, an async_play_media of
\* media type channel that sent all its keys sent one key of the digit
\* range 1000..1009 when N < 10, two when 10 <= N <= 99 and three when
\* N >= 100, the last of them 1000 + (N mod 10), and then the confirm key
\* 1053, once, as the final key; for any other media type it sends no key.
C17_KeyCounts ==
    /\ (last.op = "play_media" /\ last.arg[1] = "channel"
            /\ last.outcome = "ok")
        => LET keys == Keys(last.calls)
               N == last.arg[2]
           IN  /\ CountIn(keys, 1000..1009)
                    = (IF N < 10 THEN 1 ELSE IF N <= 99 THEN 2 ELSE 3)
               /\ Len(keys) >= 2
               /\ keys[Len(keys) - 1] = 1000 + (N % 10)
               /\ keys[Len(keys)] = 1053
               /\ CountIn(keys, {1053}) = 1
    /\ (last.op = "play_media" /\ last.arg[1] # "channel")
        => last.calls = <<>>

\* C18: a select of a source that is neither Netflix nor YouTube nor in the
\* configured list never completes; when its device calls return it ends
\* with ValueError after the menu key 1056 (and, when a streaming app is
\* left, after that app's stop call and the delay); it sends no other key
\* and makes no start call, and the current source keeps its value, a
\* stopped streaming app included.
C18_UnknownTargetFailsLate ==
    (last.op = "select_source" /\ ~Streaming(last.arg[1])
        /\ ~Configured(last.arg[1]))
    => /\ last.outcome \in {"ValueError", "device_error"}
       /\ last.outcome = "ValueError"
            => last.calls =
                (IF Streaming(last.source0)
                 THEN <<StopOf(last.source0), <<"sleep", 3>>>> ELSE <<>>)
                \o <<<<"sendkey", 1056>>>>
       /\ \A i \in 1..Len(last.calls) :
            /\ last.calls[i][1] \notin {"start_netflix", "start_youtube"}
            /\ last.calls[i][1] = "sendkey" => last.calls[i][2] = 1056
       /\ current_source = last.source0

\* C18's case: an unconfigured source selected while YouTube is current;
\* YouTube was stopped and is still the current source.
C18_Witness ==
    /\ last.op = "select_source" /\ last.arg[1] = Radio
    /\ last.outcome = "ValueError"
    /\ last.calls = <<<<"stop_youtube">>, <<"sleep", 3>>, <<"sendkey", 1056>>>>
    /\ current_source = YouTube

\* The calls a select makes for its target once it has left the old source.
TargetCalls(target) ==
    IF Streaming(target) THEN <<StartOf(target)>>
    ELSE <<<<"sendkey", 1056>>,
           <<"sendkey",
             1001 + (CHOOSE i \in 0..(Len(sources_list) - 1) :
                        sources_list[i + 1] = target)>>>>

\* C19: when polls run while async_select_source is suspended and change
\* the current source, the select still makes the start call or the key
\* sends of its target, and at the moment it returns the current source is
\* the target.
C19_SelectOverwritesPoll ==
    sel.pc = "returned"
    => /\ current_source = sel.target
       /\ last.op = "select_source" /\ last.outcome = "ok"
       /\ last.calls =
            (IF Streaming(sel.source_start)
             THEN <<StopOf(sel.source_start), <<"sleep", 3>>>> ELSE <<>>)
            \o TargetCalls(sel.target)

\* C19's case: a select that left YouTube for a configured source returns
\* after a poll had made a third source current.
C19_Witness ==
    /\ sel.pc = "returned"
    /\ sel.source_start = YouTube /\ sel.target = TV
    /\ sel.source_at_return = Netflix
    /\ current_source = TV
    /\ Len(last.calls) = 4

====
